---- MODULE Spec2Model ----
(***************************************************************************)
(* Model of the SWAPI mirror: the remote fetcher, the upsert store, the    *)
(* relationship filler, the sync orchestrator and the route handlers that  *)
(* call them (src/app/services, src/app/routes, src/app/db_exceptions.py). *)
(*                                                                         *)
(* Abstraction of the data: every entity row has its natural key (name or  *)
(* title) in the field "key" and its two other columns folded into the     *)
(* field "attr".  A table is the sequence of its rows in insertion order;  *)
(* the position of a row is its primary key id.  An association table has  *)
(* no key and no constraint, so it is a bag of id pairs.                   *)
(***************************************************************************)
EXTENDS Integers, Sequences, FiniteSets, Bags, TLC

\* ------------------------------------------------------------------ bounds
\* Longest record list a fetch returns.
MaxBatch == 2

\* Largest retries argument of a direct fetch_from_swapi call, and the largest
\* number of requests the source fails.
MaxRetries == 3

\* The longest name / title parameter of a search request.
MaxQuery == 2

\* ------------------------------------------------------- program constants
\* fetch_from_swapi(endpoint, retries=3, delay=2, ...)
Retries == 3

Delay == 2

\* The largest skip the route wrapper lets through and the largest limit.
MaxSkip == 10000

MaxLimit == 100

\* ------------------------------------------------------------------- data
Kinds == {"Character", "Film", "Starship"}

\* Python's None: the value of dict.get for a missing field.
None == "None"

\* Natural keys the remote source may serve, per kind.
Names(kind) ==
  CASE kind = "Character" -> {"Luke", "Leia"}
    [] kind = "Film"      -> {"A New Hope"}
    [] kind = "Starship"  -> {"X-Wing"}

\* Values of the other columns, per kind.
AttrValues(kind) ==
  CASE kind = "Character" -> {"a1"}
    [] kind = "Film"      -> {"a1"}
    [] kind = "Starship"  -> {"a1", "a2"}

\* Raw records of the remote source: a mapping with the fields of the kind and
\* a field the models do not have ("url"); a record may lack its key field.
RawRecords(kind) ==
  { [f \in {"key", "attr", "url"} |-> CASE f = "key" -> k [] f = "attr" -> a [] f = "url" -> "u"]
      : k \in Names(kind), a \in AttrValues(kind) }
  \cup (IF kind = "Starship" THEN { [f \in {"attr", "url"} |-> IF f = "attr" THEN "a1" ELSE "u"] } ELSE {})

SeqsUpTo(S, n) == UNION { [1..m -> S] : m \in 0..n }

RawLists(kind) == SeqsUpTo(RawRecords(kind), MaxBatch)

\* dict.get(f): the field's value, None when the field is missing.
Get(raw, f) == IF f \in DOMAIN raw THEN raw[f] ELSE None

\* store_characters / store_films / store_starships: the projection of each raw
\* record on the kind's columns.
Project(raw) == [key |-> Get(raw, "key"), attr |-> Get(raw, "attr")]

Processed(list) == [i \in 1..Len(list) |-> Project(list[i])]

KeysOf(rows) == { rows[i].key : i \in 1..Len(rows) }

RecSet(rows) == { rows[i] : i \in 1..Len(rows) }

\* ------------------------------------------------------------- exceptions
\* An exception is its class, whether its message names a missing table, and
\* (HTTPException) its status code.
Exc(cls, nf, st) == [cls |-> cls, notfound |-> nf, status |-> st]

NoExc == Exc("none", FALSE, 0)

SystemExit1 == Exc("SystemExit", FALSE, 1)

HTTPError(st) == Exc("HTTPException", FALSE, st)

IntegrityError == Exc("IntegrityError", FALSE, 0)

\* Failures of the store that do not depend on the data: connectivity, missing
\* table, permission, missing driver, another store error, an unknown error.
EnvErrors ==
  { Exc("OperationalError", FALSE, 0), Exc("ProgrammingError", TRUE, 0),
    Exc("ProgrammingError", FALSE, 0), Exc("NoSuchModuleError", FALSE, 0),
    Exc("SQLAlchemyError", FALSE, 0), Exc("Exception", FALSE, 0) }

SQLAlchemyClasses ==
  {"OperationalError", "ProgrammingError", "IntegrityError", "NoSuchModuleError", "SQLAlchemyError"}

\* handle_db_exception with the message test applied to every class of error.
HandleDbExceptionAnyMessage(e, exit_on_error) ==
  LET re_raise == ~e.notfound
  IN IF e.cls \notin SQLAlchemyClasses /\ ~exit_on_error THEN "raise"
     ELSE IF exit_on_error /\ re_raise THEN "exit"
     ELSE IF re_raise THEN "raise"
     ELSE "return"

\* handle_db_exception without the `raise e` of its last branch and with the
\* final re-raise kept for the store's own errors.
HandleDbExceptionUnknownQuiet(e, exit_on_error) ==
  LET re_raise == ~(e.cls = "ProgrammingError" /\ e.notfound)
  IN IF exit_on_error /\ re_raise THEN "exit"
     ELSE IF re_raise /\ e.cls \in SQLAlchemyClasses THEN "raise"
     ELSE "return"

\* handle_db_exception(e, context, exit_on_error): "exit" is sys.exit(1), "raise"
\* re-raises e, "return" returns normally.
HandleDbException(e, exit_on_error) ==
  LET re_raise == ~(e.cls = "ProgrammingError" /\ e.notfound)
  IN IF e.cls \notin SQLAlchemyClasses /\ ~exit_on_error THEN "raise"
     ELSE IF exit_on_error /\ re_raise THEN "exit"
     ELSE IF re_raise THEN "raise"
     ELSE "return"

\* The errors handed to handle_db_exception: every class it tells apart, with
\* a message that names a missing table or with another message.
HandledErrors ==
  { Exc(c, nf, 0) : c \in SQLAlchemyClasses \cup {"Exception"}, nf \in BOOLEAN }

\* exit_on_error as store_objects and fill_relationships pass it: they leave
\* the parameter at its default.
ServiceExitOnError == TRUE

\* What a function delivers to its caller: how ("return", "raise", "exit") and
\* the exception that travels (SystemExit for "exit").
Delivery(how, exc) == [how |-> how, exc |-> exc]

\* What handle_db_exception(e, context, exit_on_error) delivers to its caller
\* when it is called, as at its call sites, from the except block that handles
\* e: the bare raise re-raises e.
Handled(e, exit_on_error) ==
  CASE HandleDbException(e, exit_on_error) = "exit"   -> Delivery("exit", SystemExit1)
    [] HandleDbException(e, exit_on_error) = "raise"  -> Delivery("raise", e)
    [] HandleDbException(e, exit_on_error) = "return" -> Delivery("return", NoExc)

\* The arguments of the sys.exit calls handle_db_exception makes.
SysExitCalls(e, exit_on_error) ==
  IF HandleDbException(e, exit_on_error) = "exit" THEN <<1>> ELSE <<>>

\* The except block of store_objects and fill_relationships after the
\* rollback: handle_db_exception(e, context), then a bare raise.
ReRaise(e) ==
  IF HandleDbException(e, ServiceExitOnError) = "exit"
  THEN Delivery("exit", SystemExit1)
  ELSE Delivery("raise", e)

\* ---------------------------------------------------------------- session
\* A fault of the environment: the failing operation's position and the error.
NoFault == [at |-> 0, err |-> NoExc]

FaultSet(n) == {NoFault} \cup { [at |-> i, err |-> e] : i \in 1..n, e \in EnvErrors }

\* The faults of a call with n operations.
FaultsOf == [n \in 1..(MaxBatch + 1) |-> FaultSet(n)]

Faults(n) == FaultsOf[n]

\* A store that enforces no constraint.
FlushAlways(table, pend) == TRUE

\* A store that also rejects a commit with no pending row.
FlushOKNonEmpty(table, pend) ==
  /\ pend # <<>>
  /\ \A i \in 1..Len(pend) : pend[i].key # None /\ pend[i].key \notin KeysOf(table)
  /\ \A i, j \in 1..Len(pend) : pend[i].key = pend[j].key => i = j

\* unique=True, nullable=False on name/title: the pending rows can be flushed
\* when no key is NULL and no key occurs twice among the table and the rows.
FlushOK(table, pend) ==
  /\ \A i \in 1..Len(pend) : pend[i].key # None /\ pend[i].key \notin KeysOf(table)
  /\ \A i, j \in 1..Len(pend) : pend[i].key = pend[j].key => i = j

\* A lookup that sees only the first row of the table.
LookupFirst(visible, k) == Len(visible) > 0 /\ visible[1].key = k

\* A lookup that never finds a row.
LookupNever(visible, k) == FALSE

\* db.query(model).filter(key == k).first(): a row with the key among the rows
\* the query sees (key == None is rendered IS NULL).
Lookup(visible, k) == \E i \in 1..Len(visible) : visible[i].key = k

\* A test that finds a record only when a row equals it in every column.
PresentSameRecord(visible, data) == \E i \in 1..Len(visible) : visible[i] = data

\* The test of store_objects on a record: the lookup by data[unique_field]
\* alone; no other field of the record is read.
Present(visible, data) == Lookup(visible, data.key)

\* The try block of store_objects from record i on: the lookups, the adds and
\* the commit.  pend are the rows added to the session so far.  Operation i is
\* the lookup of record i, operation Len(R)+1 the commit.
RECURSIVE StoreTry(_, _, _, _, _, _, _)
StoreTry(table, pend, R, i, added, af, fault) ==
  IF fault.at = i THEN [exc |-> fault.err, pend |-> pend, added |-> added]
  ELSE IF i > Len(R)
  THEN IF FlushOK(table, pend)
       THEN [exc |-> NoExc, pend |-> pend, added |-> added]
       ELSE [exc |-> IntegrityError, pend |-> pend, added |-> added]
  ELSE IF af /\ ~FlushOK(table, pend)
  THEN [exc |-> IntegrityError, pend |-> pend, added |-> added]
  ELSE IF Present(IF af THEN table \o pend ELSE table, R[i])
  THEN StoreTry(table, pend, R, i + 1, added, af, fault)
  ELSE StoreTry(table, pend \o <<R[i]>>, R, i + 1, added + 1, af, fault)

\* db.commit(): the pending rows become rows of the table.
Commit(table, pend) == table \o pend

\* A rollback that leaves the pending rows in the table.
RollbackKeeps(table, pend) == table \o pend

\* db.rollback(): the pending rows are dropped.
Rollback(table, pend) == table

\* The count a call reports when it reports none.
NoCount == -1

\* store_objects(db, model_class, data_list, unique_field) on the kind's table.
\* cause tells a failure of the environment ("env") from one the data causes
\* ("data"); staged is the number of rows the session held when the try block
\* ended.
StoreObjects(table, R, af, fault) ==
  LET t == StoreTry(table, <<>>, R, 1, 0, af, fault)
  IN IF t.exc = NoExc
     THEN [table |-> Commit(table, t.pend), d |-> Delivery("return", NoExc), exc |-> NoExc,
           cause |-> "none", added |-> t.added, staged |-> Len(t.pend)]
     ELSE [table |-> Rollback(table, t.pend), d |-> ReRaise(t.exc), exc |-> t.exc,
           cause |-> IF t.exc = fault.err THEN "env" ELSE "data",
           added |-> NoCount, staged |-> Len(t.pend)]

\* --------------------------------------------------------------- fetching
\* A response body of the source: a JSON array of records, or a JSON object
\* whose values are the records (an ordered list of <<key, value>> pairs).
ListBody(list) == [shape |-> "list", items |-> list]

DictBody(list) == [shape |-> "dict", items |-> [i \in 1..Len(list) |-> <<i, list[i]>>]]

Bodies(kind) == { ListBody(l) : l \in RawLists(kind) } \cup { DictBody(l) : l \in RawLists(kind) }

\* The values of a mapping taken last to first.
NormalizeReversed(body) ==
  IF body.shape = "dict"
  THEN IF body.items = <<>> THEN <<>>
       ELSE [i \in 1..Len(body.items) |-> body.items[Len(body.items) + 1 - i][2]]
  ELSE body.items

\* isinstance(data, dict): list(data.values()), otherwise data itself.
Normalize(body) ==
  IF body.shape = "dict"
  THEN IF body.items = <<>> THEN <<>> ELSE [i \in 1..Len(body.items) |-> body.items[i][2]]
  ELSE body.items

\* The last failed attempt with the outcomes of fail_fast exchanged.
GiveUpExchanged(fail_fast, requests, sleeps) ==
  IF fail_fast
  THEN [d |-> Delivery("return", NoExc), value |-> <<>>, valued |-> TRUE, requests |-> requests, sleeps |-> sleeps]
  ELSE [d |-> Delivery("raise", HTTPError(502)), value |-> None, valued |-> FALSE, requests |-> requests,
        sleeps |-> sleeps]

\* attempt == retries in the except block: HTTPException(502) when fail_fast,
\* otherwise return [].
GiveUp(fail_fast, requests, sleeps) ==
  IF fail_fast
  THEN [d |-> Delivery("raise", HTTPError(502)), value |-> None, valued |-> FALSE, requests |-> requests,
        sleeps |-> sleeps]
  ELSE [d |-> Delivery("return", NoExc), value |-> <<>>, valued |-> TRUE, requests |-> requests, sleeps |-> sleeps]

\* The attempt loop with time.sleep(delay) ahead of the attempt == retries test.
RECURSIVE FetchLoopSleepsFirst(_, _, _, _, _, _, _, _)
FetchLoopSleepsFirst(attempt, fails, body, retries, delay, fail_fast, requests, sleeps) ==
  IF attempt > retries
  THEN [d |-> Delivery("return", NoExc), value |-> None, valued |-> FALSE, requests |-> requests, sleeps |-> sleeps]
  ELSE IF attempt > fails
  THEN [d |-> Delivery("return", NoExc), value |-> Normalize(body), valued |-> TRUE,
        requests |-> requests + 1, sleeps |-> sleeps]
  ELSE IF attempt = retries
  THEN GiveUp(fail_fast, requests + 1, Append(sleeps, delay))
  ELSE FetchLoopSleepsFirst(attempt + 1, fails, body, retries, delay, fail_fast, requests + 1,
                            Append(sleeps, delay))

\* The attempt loop of fetch_from_swapi from `attempt` on.  The first `fails`
\* requests fail (transport failure or malformed body), the next one answers
\* `body`.  requests counts the requests.get calls, sleeps lists the arguments
\* of the time.sleep calls.  value is None, and valued FALSE, when the function
\* ends without a return statement that gives a value.
RECURSIVE FetchLoop(_, _, _, _, _, _, _, _)
FetchLoop(attempt, fails, body, retries, delay, fail_fast, requests, sleeps) ==
  IF attempt > retries
  THEN [d |-> Delivery("return", NoExc), value |-> None, valued |-> FALSE, requests |-> requests, sleeps |-> sleeps]
  ELSE IF attempt > fails
  THEN [d |-> Delivery("return", NoExc), value |-> Normalize(body), valued |-> TRUE,
        requests |-> requests + 1, sleeps |-> sleeps]
  ELSE IF attempt = retries
  THEN GiveUp(fail_fast, requests + 1, sleeps)
  ELSE FetchLoop(attempt + 1, fails, body, retries, delay, fail_fast, requests + 1,
                 Append(sleeps, delay))

\* fetch_from_swapi with its attempts numbered from 0.
FetchFromSwapiFromZero(fails, body, retries, delay, fail_fast) ==
  FetchLoop(0, fails, body, retries, delay, fail_fast, 0, <<>>)

\* for attempt in range(1, retries + 1).
FetchFromSwapi(fails, body, retries, delay, fail_fast) ==
  FetchLoop(1, fails, body, retries, delay, fail_fast, 0, <<>>)

\* fetch_characters / fetch_films / fetch_starships: the defaults retries=3,
\* delay=2, fail_fast=True.
FetchKind(fails, body) == FetchFromSwapi(fails, body, Retries, Delay, TRUE)

\* The delay arguments of direct fetch_from_swapi calls.
Delays == {1, Delay}

\* What the source does to one fetch of the handlers: it answers the first
\* request with a body, or it fails every request.
SourceSet(kind) ==
  { <<0, DictBody(l)>> : l \in RawLists(kind) } \cup { <<Retries, DictBody(<<>>)>> }

SourceOf == [kind \in Kinds |-> SourceSet(kind)]

SourceBehaviours(kind) == SourceOf[kind]

\* ----------------------------------------------------- relationship filler
LinkTables == {"character_film", "character_starship", "film_starship"}

\* The two entity kinds an association table links.
Ends(t) ==
  CASE t = "character_film"     -> <<"Character", "Film">>
    [] t = "character_starship" -> <<"Character", "Starship">>
    [] t = "film_starship"      -> <<"Film", "Starship">>

\* The id pairs of the rows of the two tables.
Pairs(left, right) == (1..Len(left)) \X (1..Len(right))

\* The number of rows of the three association tables.
LinkCount(links) ==
  BagCardinality(links["character_film"]) + BagCardinality(links["character_starship"])
    + BagCardinality(links["film_starship"])

\* A filler that appends every pair, linked or not.
MissingAll(left, right, links) == SetToBag(Pairs(left, right))

\* A filler that skips every row of the left table that has a link already.
MissingByRow(left, right, links) ==
  SetToBag({ p \in Pairs(left, right) : ~(\E q \in BagToSet(links) : q[1] = p[1]) })

\* The pairs the loops of fill_relationships append: every pair of rows of the
\* two tables that the relationship collection does not hold yet.
Missing(left, right, links) ==
  SetToBag({ p \in Pairs(left, right) : ~BagIn(p, links) })

\* A commit that leaves the association table with the staged rows alone.
CommitLinksReplacing(links, staged) == staged

\* db.commit() / db.rollback() on the association rows the session holds.
CommitLinks(links, staged) == links (+) staged

RollbackLinks(links, staged) == links

\* Operations of fill_relationships a fault can hit: its queries (1) and its
\* commit (2).  The appends run between the two.
FillQueries == 1
FillCommit == 2

\* fill_relationships(db).  staged is the number of association rows the
\* session held when the try block ended.
FillRelationships(tables, links, fault) ==
  LET staged == [t \in LinkTables |->
                   IF fault.at = FillQueries THEN EmptyBag
                   ELSE Missing(tables[Ends(t)[1]], tables[Ends(t)[2]], links[t])]
      n == LinkCount(staged)
  IN IF fault = NoFault
     THEN [links |-> [t \in LinkTables |-> CommitLinks(links[t], staged[t])],
           d |-> Delivery("return", NoExc), exc |-> NoExc, cause |-> "none", staged |-> n]
     ELSE [links |-> [t \in LinkTables |-> RollbackLinks(links[t], staged[t])],
           d |-> ReRaise(fault.err), exc |-> fault.err, cause |-> "env", staged |-> n]

\* ----------------------------------------------------------- route wrapper
\* safe_route: an HTTPException passes, any other Exception is handed to
\* handle_db_exception(e, exit_on_error=False) inside try/except-pass and
\* becomes a 500, SystemExit is no Exception and passes.  The result is the
\* status of the response, 0 when the handler ends without a response.
SafeRoute(d) ==
  CASE d.how = "return" -> 200
    [] d.how = "exit"   -> 0
    [] d.how = "raise"  -> IF d.exc.cls = "HTTPException" THEN d.exc.status ELSE 500

\* ------------------------------------------------------------ orchestrator
\* An order that fetches the films before it stores the characters.
SyncOrderFilmsEarly ==
  << "fetch_characters", "fetch_films", "store_characters", "store_films",
     "fetch_starships", "store_starships", "fill_relationships" >>

\* The steps of sync_all in the order of its statements.
SyncOrder ==
  << "fetch_characters", "store_characters", "fetch_films", "store_films",
     "fetch_starships", "store_starships", "fill_relationships" >>

FetchSteps == {"fetch_characters", "fetch_films", "fetch_starships"}

StoreSteps == {"store_characters", "store_films", "store_starships"}

StepKind(step) ==
  CASE step \in {"fetch_characters", "store_characters"} -> "Character"
    [] step \in {"fetch_films", "store_films"}           -> "Film"
    [] step \in {"fetch_starships", "store_starships"}   -> "Starship"

IndexOf(step) == CHOOSE i \in 1..Len(SyncOrder) : SyncOrder[i] = step

\* The kinds sync_all has fetched when it fetches `kind`.
Fetched(kind) ==
  { StepKind(SyncOrder[i]) : i \in 1..(IndexOf(CHOOSE s \in FetchSteps : StepKind(s) = kind) - 1) }

\* The statement after `step`, "Done" after the last one.
NextStep(step) ==
  IF IndexOf(step) = Len(SyncOrder) THEN "Done" ELSE SyncOrder[IndexOf(step) + 1]

\* A run that goes on to its next statement whatever the call delivered.
AfterStepGoesOn(step, d) == NextStep(step)

\* sync_all has no try block: a call that does not return ends the run.
AfterStep(step, d) == IF d.how = "return" THEN NextStep(step) ELSE "Failed"

\* A store step whose failure empties every table.
StoredUndoing(tables, kind, r) ==
  IF r.d.how = "return" THEN [tables EXCEPT ![kind] = r.table] ELSE [k \in Kinds |-> <<>>]

\* The tables after a store call on the kind's table: the call works on that
\* table alone, and no caller undoes what earlier calls committed.
Stored(tables, kind, r) == [tables EXCEPT ![kind] = r.table]

\* Routes that all call store_characters.
RouteStoreCharacters(kind) == "store_characters"

\* The store step of the single-kind route sync_<kind>.
RouteStore(kind) ==
  CASE kind = "Character" -> "store_characters"
    [] kind = "Film"      -> "store_films"
    [] kind = "Starship"  -> "store_starships"

\* ------------------------------------------------------------------ state
VARIABLES
  unique,     \* the schema declares the uniqueness constraint on name / title
  writer,     \* the calls of the two concurrent request threads
  autoflush,  \* the session factory's autoflush setting
  audit,      \* the history recorded: "off", "stores" (lastStore), "commits"
              \* (runAdded), "fetches" (recs, same), "links" (linked) or
              \* "errors" (out.err)
  tbl,        \* the three entity tables
  lnk,        \* the three association tables
  pc,         \* the operation in progress and its next statement
  local,      \* the list the handler holds between its fetch and its store
  trace,      \* the steps the current sync_all run has executed
  out,        \* what the last service call delivered to its caller
  resp,       \* the status of the last route response (0: none)
  msg,        \* the message of the last route response and the count it states
  lastStore,  \* the last store call of a route, kept while the list in hand
              \* is the one it stored: its kind and list, whether it returned,
              \* and whether it was itself such a repeated call
  runAdded,   \* the rows each store step of the current sync_all run committed
  recs,       \* the record sets the last sync_all run fetched
  same,       \* the run follows a successful run and has fetched the same so far
  linked,     \* the number of association rows the last direct fill call found
  call        \* the last direct call of a helper: its arguments and what it gave

vars ==
  <<unique, writer, autoflush, audit, tbl, lnk, pc, local, trace, out, resp, msg, lastStore,
    runAdded, recs, same, linked, call>>

\* The state of the request handlers that run one at a time.
handlerVars ==
  <<autoflush, audit, pc, local, trace, out, resp, msg, lastStore, runAdded, recs, same,
    linked, call>>

Pc(op, step) == [op |-> op, step |-> step]

\* how and exc: what the call delivered; cause: what made it fail ("source",
\* "env", "data", or "none"); count: the number it reported; staged: whether
\* its session held rows when its try block ended; err: the exception its
\* except block caught (recorded under audit "errors").
Out(op, d, cause, count, staged) ==
  [op |-> op, how |-> d.how, exc |-> d.exc, cause |-> cause, count |-> count,
   staged |-> staged > 0, err |-> NoExc]

\* The outcome of a store or fill call with the exception `e` its except block
\* caught.
Caught(o, e) == [o EXCEPT !.err = IF audit = "errors" THEN e ELSE NoExc]

NoOut == Out("none", Delivery("return", NoExc), "none", NoCount, 0)

FetchOut(r) ==
  Out("fetch", r.d, IF r.d.how = "return" THEN "none" ELSE "source", NoCount, 0)

NoStore == [kind |-> "none", list |-> <<>>, ok |-> FALSE, again |-> FALSE]

StoreOf(kind, list, ok, again) == [kind |-> kind, list |-> list, ok |-> ok, again |-> again]

\* The store call about to run is given the list of the call before it.
Repeats(kind, list) == lastStore.kind = kind /\ lastStore.list = list

\* The message of a response: "none" (no message: no response, or an error
\* response), "nothing found", "synced" with the count it states, "all synced".
Message(text, count) == [text |-> text, count |-> count]

NoMsg == Message("none", NoCount)

NoCall == [fn |-> "none", args |-> <<>>, done |-> FALSE, res |-> <<>>]

\* A call about to be made.
Calling(fn, args) == [fn |-> fn, args |-> args, done |-> FALSE, res |-> <<>>]

NoRows == [k \in Kinds |-> <<>>]

NoRecs == [k \in Kinds |-> {}]

NoLinks == [t \in LinkTables |-> EmptyBag]

\* No operation is in progress (single synchronous writer).
AtRest == pc.step \in {"Idle", "Done", "Failed"}

\* The rows `after` holds beyond `before`.
Appended(before, after) == SubSeq(after, Len(before) + 1, Len(after))

\* The two request threads.
Writers == {1, 2}

\* A thread between two calls.  kind: the table its store calls work on; d,
\* exc, count: what its last call delivered, the exception its except block
\* caught and the count it logged;
\* and staged: the rows its session held when its try block ended.
IdleWriter(kind, d, exc, count, staged) ==
  [op |-> "idle", kind |-> kind, list |-> <<>>, i |-> 0, pend |-> <<>>, snap |-> <<>>,
   links |-> NoLinks, d |-> d, exc |-> exc, count |-> count, staged |-> staged]

NoWriter == IdleWriter("none", Delivery("return", NoExc), NoExc, NoCount, <<>>)

\* models.py declares unique=True on name and title; no request runs
\* concurrently.
InitSchema ==
  /\ unique = TRUE
  /\ writer = [w \in Writers |-> NoWriter]

\* No request handled yet.
InitLocals ==
  /\ pc = Pc("none", "Idle")
  /\ local = <<>>
  /\ trace = <<>>
  /\ out = NoOut
  /\ resp = 0
  /\ msg = NoMsg
  /\ lastStore = NoStore
  /\ runAdded = NoRows
  /\ recs = NoRecs
  /\ same = FALSE
  /\ linked = 0

InitHandlers ==
  /\ InitSchema
  /\ InitLocals

InitControl ==
  /\ InitHandlers
  /\ call = NoCall

\* An empty store; init_db builds the session factory with autoflush=False.
Init ==
  /\ autoflush = FALSE
  /\ audit = "off"
  /\ tbl = NoRows
  /\ lnk = NoLinks
  /\ InitControl

\* ---------------------------------------------------------------- sync_all
\* POST /sync/all: sync_all_endpoint calls sync_all(db).
SyncAllBegin ==
  /\ AtRest
  /\ pc' = Pc("sync_all", SyncOrder[1])
  /\ same' = (audit = "fetches" /\ pc = Pc("sync_all", "Done"))
  /\ recs' = IF audit = "fetches" /\ pc = Pc("sync_all", "Done") THEN recs ELSE NoRecs
  /\ trace' = <<>>
  /\ runAdded' = NoRows
  /\ out' = NoOut
  /\ resp' = 0
  /\ msg' = NoMsg
  /\ local' = <<>>
  /\ lastStore' = NoStore
  /\ UNCHANGED <<unique, writer, autoflush, audit, tbl, lnk, linked, call>>

\* chars = fetch_characters() and its two siblings.
FetchStep(kind) ==
  /\ pc.op = "sync_all" /\ pc.step \in FetchSteps
  /\ StepKind(pc.step) = kind
  /\ \E sb \in SourceBehaviours(kind) :
       LET r == FetchKind(sb[1], sb[2])
           ok == r.d.how = "return"
           got == IF ok THEN RecSet(Processed(r.value)) ELSE {}
       IN /\ out' = FetchOut(r)
          /\ trace' = Append(trace, pc.step)
          /\ pc' = Pc("sync_all", AfterStep(pc.step, r.d))
          /\ local' = IF ok THEN r.value ELSE <<>>
          /\ resp' = IF ok THEN 0 ELSE SafeRoute(r.d)
          /\ msg' = NoMsg
          /\ same' = (ok /\ same /\ got = recs[kind])
          /\ recs' = IF ok /\ audit = "fetches"
                     THEN [k \in Kinds |->
                             IF k = kind THEN got
                             ELSE IF same' \/ k \in Fetched(kind) THEN recs[k]
                             ELSE {}]
                     ELSE NoRecs
  /\ UNCHANGED <<unique, writer, autoflush, audit, tbl, lnk, runAdded, lastStore, linked, call>>

\* store_characters(db, chars) and its two siblings.
StoreStep(kind) ==
  /\ pc.op = "sync_all" /\ pc.step \in StoreSteps
  /\ StepKind(pc.step) = kind
  /\ \E fault \in Faults(Len(local) + 1) :
       LET r == StoreObjects(tbl[kind], Processed(local), autoflush, fault)
           ok == r.d.how = "return"
       IN /\ tbl' = Stored(tbl, kind, r)
          /\ out' = Caught(Out("store", r.d, r.cause, r.added, r.staged), r.exc)
          /\ trace' = Append(trace, pc.step)
          /\ pc' = Pc("sync_all", AfterStep(pc.step, r.d))
          /\ resp' = IF ok THEN 0 ELSE SafeRoute(r.d)
          /\ msg' = NoMsg
          /\ runAdded' = IF ok /\ audit = "commits"
                         THEN [runAdded EXCEPT ![kind] = Appended(tbl[kind], r.table)]
                         ELSE runAdded
          /\ same' = (ok /\ same)
          /\ recs' = IF ok THEN recs ELSE NoRecs
  /\ local' = <<>>
  /\ UNCHANGED <<unique, writer, autoflush, audit, lnk, lastStore, linked, call>>

\* fill_relationships(db), the last statement of sync_all.
FillStep ==
  /\ pc = Pc("sync_all", "fill_relationships")
  /\ \E fault \in Faults(FillCommit) :
       LET r == FillRelationships(tbl, lnk, fault)
           ok == r.d.how = "return"
       IN /\ lnk' = r.links
          /\ out' = Caught(Out("fill", r.d, r.cause, NoCount, r.staged), r.exc)
          /\ trace' = Append(trace, pc.step)
          /\ pc' = Pc("sync_all", AfterStep(pc.step, r.d))
          /\ resp' = SafeRoute(r.d)
          /\ msg' = IF ok THEN Message("all synced", NoCount) ELSE NoMsg
          /\ same' = (ok /\ same)
          /\ recs' = IF ok THEN recs ELSE NoRecs
  /\ UNCHANGED <<unique, writer, autoflush, audit, tbl, local, runAdded, lastStore, linked, call>>

\* ------------------------------------------------------ single-kind routes
\* POST /sync/characters (films, starships): the fetch and the empty check.
RouteFetch(kind) ==
  /\ AtRest
  /\ \E sb \in SourceBehaviours(kind) :
       LET r == FetchKind(sb[1], sb[2])
           go == r.d.how = "return" /\ r.value # <<>>
       IN /\ out' = FetchOut(r)
          /\ pc' = IF go THEN Pc("sync_kind", RouteStore(kind)) ELSE Pc("none", "Idle")
          /\ local' = IF go THEN r.value ELSE <<>>
          /\ resp' = IF go THEN 0 ELSE SafeRoute(r.d)
          /\ msg' = IF r.d.how = "return" /\ ~go THEN Message("nothing found", NoCount) ELSE NoMsg
          /\ lastStore' = IF go /\ Repeats(kind, Processed(r.value))
                          THEN lastStore
                          ELSE NoStore
  /\ trace' = <<>>
  /\ runAdded' = NoRows
  /\ recs' = NoRecs
  /\ same' = FALSE
  /\ UNCHANGED <<unique, writer, autoflush, audit, tbl, lnk, linked, call>>

\* return {"message": f"{len(characters)} characters synced successfully"}.
RouteSummary(list) == Message("synced", Len(list))

\* The store_<kind>(db, list) call of the route and its response.
RouteStoreStep(kind) ==
  /\ pc = Pc("sync_kind", RouteStore(kind))
  /\ \E fault \in Faults(Len(local) + 1) :
       LET r == StoreObjects(tbl[kind], Processed(local), autoflush, fault)
       IN /\ tbl' = Stored(tbl, kind, r)
          /\ out' = Caught(Out("store", r.d, r.cause, r.added, r.staged), r.exc)
          /\ resp' = SafeRoute(r.d)
          /\ msg' = IF r.d.how = "return" THEN RouteSummary(local) ELSE NoMsg
          /\ lastStore' = IF r.cause = "env" \/ audit # "stores"
                          THEN NoStore
                          ELSE StoreOf(kind, Processed(local), r.d.how = "return",
                                       Repeats(kind, Processed(local)))
  /\ pc' = Pc("none", "Idle")
  /\ local' = <<>>
  /\ UNCHANGED <<unique, writer, autoflush, audit, lnk, trace, runAdded, recs, same, linked, call>>

\* A direct call of fill_relationships(db).
FillCall ==
  /\ AtRest
  /\ \E fault \in Faults(FillCommit) :
       LET r == FillRelationships(tbl, lnk, fault)
       IN /\ lnk' = r.links
          /\ out' = Caught(Out("fill", r.d, r.cause, NoCount, r.staged), r.exc)
  /\ pc' = Pc("none", "Idle")
  /\ resp' = 0
  /\ msg' = NoMsg
  /\ lastStore' = NoStore
  /\ trace' = <<>>
  /\ runAdded' = NoRows
  /\ recs' = NoRecs
  /\ same' = FALSE
  /\ linked' = IF audit = "links" THEN LinkCount(lnk) ELSE 0
  /\ UNCHANGED <<unique, writer, autoflush, audit, tbl, local, call>>

\* ------------------------------------------------------- direct helper calls
\* handle_db_exception(e, context, exit_on_error) called on its own.
HandleCall ==
  /\ call.fn = "handle_db_exception" /\ ~call.done
  /\ call' = [call EXCEPT !.done = TRUE,
                          !.res = [d |-> Handled(call.args.e, call.args.exit_on_error),
                                   exits |-> SysExitCalls(call.args.e, call.args.exit_on_error)]]
  /\ UNCHANGED <<unique, writer, autoflush, audit, tbl, lnk, pc, local, trace, out, resp, msg, lastStore,
                 runAdded, recs, same, linked>>

\* fetch_from_swapi(endpoint, retries, delay, fail_fast) called on its own,
\* against a source that fails the first `fails` requests and then answers
\* `body`.
FetchCall ==
  /\ call.fn = "fetch_from_swapi" /\ ~call.done
  /\ call' = [call EXCEPT !.done = TRUE,
                          !.res = FetchFromSwapi(call.args.fails, call.args.body,
                                                 call.args.retries, call.args.delay,
                                                 call.args.fail_fast)]
  /\ UNCHANGED <<unique, writer, autoflush, audit, tbl, lnk, pc, local, trace, out, resp, msg, lastStore,
                 runAdded, recs, same, linked>>

CallNext ==
  \/ HandleCall
  \/ FetchCall

RouteNext ==
  \/ \E kind \in Kinds : RouteFetch(kind)
  \/ \E kind \in Kinds : RouteStoreStep(kind)

SyncAllNext ==
  \/ SyncAllBegin
  \/ \E kind \in Kinds : FetchStep(kind)
  \/ \E kind \in Kinds : StoreStep(kind)
  \/ FillStep

Next ==
  \/ SyncAllNext
  \/ RouteNext
  \/ FillCall

\* Every operation, from an empty store.
Spec == Init /\ [][Next]_vars

\* Calls of the single-kind routes from an empty store, recording the store
\* calls.
InitStores ==
  /\ autoflush = FALSE
  /\ audit = "stores"
  /\ tbl = NoRows
  /\ lnk = NoLinks
  /\ InitControl

SpecStores == InitStores /\ [][RouteNext]_vars

\* Runs of sync_all from an empty store, recording the rows each run commits.
InitCommits ==
  /\ autoflush = FALSE
  /\ audit = "commits"
  /\ tbl = NoRows
  /\ lnk = NoLinks
  /\ InitControl

SpecCommits == InitCommits /\ [][SyncAllNext]_vars

\* Runs of sync_all from an empty store, recording what each run fetches.
InitFetches ==
  /\ autoflush = FALSE
  /\ audit = "fetches"
  /\ tbl = NoRows
  /\ lnk = NoLinks
  /\ InitControl

SpecFetches == InitFetches /\ [][SyncAllNext]_vars

\* The exception each store and fill call caught is recorded.
InitErrors ==
  /\ autoflush = FALSE
  /\ audit = "errors"
  /\ tbl = NoRows
  /\ lnk = NoLinks
  /\ InitControl

SpecErrors == InitErrors /\ [][Next]_vars

\* Every operation, from an empty store, on a session factory built with
\* either value of autoflush.
InitSessions ==
  /\ autoflush \in BOOLEAN
  /\ audit = "off"
  /\ tbl = NoRows
  /\ lnk = NoLinks
  /\ InitControl

SpecSessions == InitSessions /\ [][Next]_vars

\* The calls of handle_db_exception: every error, exit_on_error set or not.
HandleCalls ==
  { Calling("handle_db_exception", [e |-> e, exit_on_error |-> x]) :
      e \in HandledErrors, x \in BOOLEAN }

\* The calls of fetch_from_swapi: the retries, delay and fail_fast arguments and
\* what the source does.
FetchCalls ==
  { Calling("fetch_from_swapi",
            [fails |-> fails, body |-> body, retries |-> retries, delay |-> delay,
             fail_fast |-> ff]) :
      fails \in 0..MaxRetries, body \in UNION { Bodies(kind) : kind \in Kinds },
      retries \in 0..MaxRetries, delay \in Delays, ff \in BOOLEAN }

\* Direct calls of handle_db_exception and fetch_from_swapi, one a behaviour.
InitCalls ==
  /\ autoflush = FALSE
  /\ audit = "off"
  /\ tbl = NoRows
  /\ lnk = NoLinks
  /\ InitHandlers
  /\ call \in HandleCalls \cup FetchCalls

SpecCalls == InitCalls /\ [][CallNext]_vars

\* Rows of a store that is not built by the program's runs, in id order.
StoreRows(kind) ==
  CASE kind = "Character" -> << [key |-> "Luke", attr |-> "a1"], [key |-> "Leia", attr |-> "a1"] >>
    [] kind = "Film"      -> << [key |-> "A New Hope", attr |-> "a1"], [key |-> "Empire", attr |-> "a1"] >>
    [] kind = "Starship"  -> << [key |-> "X-Wing", attr |-> "a1"], [key |-> "Falcon", attr |-> "a1"] >>

\* The tables such a store can hold: the first n of the kind's rows.
Tables(kind) == { SubSeq(StoreRows(kind), 1, n) : n \in 0..Len(StoreRows(kind)) }

\* Calls of fill_relationships on any store whose tables hold no key twice and
\* whose association tables hold no pair twice.
InitAnyStore ==
  /\ autoflush = FALSE
  /\ audit = "links"
  /\ \E c \in Tables("Character"), f \in Tables("Film"), s \in Tables("Starship") :
       /\ tbl = [Character |-> c, Film |-> f, Starship |-> s]
       /\ \E cf \in SUBSET Pairs(c, f), cs \in SUBSET Pairs(c, s), fs \in SUBSET Pairs(f, s) :
            lnk = [character_film |-> SetToBag(cf), character_starship |-> SetToBag(cs),
                   film_starship |-> SetToBag(fs)]
  /\ InitControl

SpecAnyStore == InitAnyStore /\ [][FillCall]_vars

\* ------------------------------------------------------ read and search
\* The characters of the keys of StoreRows.
Letters(name) ==
  CASE name = "Luke"       -> <<"L", "u", "k", "e">>
    [] name = "Leia"       -> <<"L", "e", "i", "a">>
    [] name = "A New Hope" -> <<"A", " ", "N", "e", "w", " ", "H", "o", "p", "e">>
    [] name = "Empire"     -> <<"E", "m", "p", "i", "r", "e">>
    [] name = "X-Wing"     -> <<"X", "-", "W", "i", "n", "g">>
    [] name = "Falcon"     -> <<"F", "a", "l", "c", "o", "n">>

\* lower() on one character.
Lower(c) ==
  CASE c = "L" -> "l" [] c = "A" -> "a" [] c = "N" -> "n" [] c = "H" -> "h"
    [] c = "E" -> "e" [] c = "X" -> "x" [] c = "W" -> "w" [] c = "F" -> "f"
    [] OTHER -> c

LowerSeq(str) == [i \in 1..Len(str) |-> Lower(str[i])]

\* The characters the name / title parameter of a search is made of.
QueryChars == {"l", "L", "e", "_", "%"}

Queries == SeqsUpTo(QueryChars, MaxQuery)

\* SQL LIKE: % stands for any run of characters, _ for any one character.
RECURSIVE Like(_, _)
Like(text, pattern) ==
  IF pattern = <<>> THEN text = <<>>
  ELSE IF Head(pattern) = "%"
  THEN Like(text, Tail(pattern)) \/ (text # <<>> /\ Like(Tail(text), pattern))
  ELSE IF text = <<>> THEN FALSE
  ELSE (Head(pattern) = "_" \/ Head(pattern) = Head(text)) /\ Like(Tail(text), Tail(pattern))

\* column.ilike(pattern): lower(column) LIKE lower(pattern).
ILike(text, pattern) == Like(LowerSeq(text), LowerSeq(pattern))

\* f"%{name}%": the parameter goes into the pattern as it is.
SearchPattern(q) == <<"%">> \o q \o <<"%">>

\* The rows of a table the filter of a search keeps, in id order.
Filtered(table, q) ==
  SelectSeq(table, LAMBDA row : ILike(Letters(row.key), SearchPattern(q)))

\* .offset(skip).limit(limit).all()
Window(rows, skip, limit) ==
  [i \in 1..(IF Len(rows) - skip < limit
             THEN (IF Len(rows) > skip THEN Len(rows) - skip ELSE 0)
             ELSE limit) |-> rows[skip + i]]

\* The Query(...) declarations of a read or search handler: skip ge=0, limit
\* gt=0 and le=100, name/title min_length=1.
Validated(search, q, skip, limit) ==
  /\ skip >= 0
  /\ limit > 0 /\ limit <= MaxLimit
  /\ search => Len(q) >= 1

\* A route wrapper without a test on skip.
WrapperRejectsLimitOnly(skip, limit) == limit < 1 \/ limit > MaxLimit

\* safe_route.wrapper: HTTPException(400) for skip > 10000 and for a limit
\* outside 1..100.
WrapperRejects(skip, limit) == skip > MaxSkip \/ limit < 1 \/ limit > MaxLimit

\* A response of a read or search route: its status, whether the handler body
\* ran, whether the store was queried, and the rows it lists.
ReadResponse(status, ran, rows) ==
  [status |-> status, ran |-> ran, queried |-> ran, rows |-> rows]

\* GET /swapi/<kind> and GET /swapi/<kind>/search on the kind's table:
\* parameter validation, the wrapper, then the handler body.
ReadRoute(table, search, q, skip, limit) ==
  IF ~Validated(search, q, skip, limit) THEN ReadResponse(422, FALSE, <<>>)
  ELSE IF WrapperRejects(skip, limit) THEN ReadResponse(400, FALSE, <<>>)
  ELSE ReadResponse(200, TRUE, Window(IF search THEN Filtered(table, q) ELSE table, skip, limit))

\* A read or search request in progress.
ReadCall ==
  /\ call.fn = "read" /\ ~call.done
  /\ call' = [call EXCEPT !.done = TRUE,
                          !.res = ReadRoute(tbl[call.args.kind], call.args.search, call.args.q,
                                            call.args.skip, call.args.limit)]
  /\ UNCHANGED <<unique, writer, autoflush, audit, tbl, lnk, pc, local, trace, out, resp, msg, lastStore,
                 runAdded, recs, same, linked>>

\* The skip and limit values of the requests: around the limits of the
\* declarations and of the wrapper.
Skips == {-1, 0, 1, MaxSkip, MaxSkip + 1}

Limits == {0, 1, 2, MaxLimit, MaxLimit + 1}

\* The read requests (no name/title) and the search requests for a kind.
ReadCalls(kind) ==
  { Calling("read", [kind |-> kind, search |-> search, q |-> q, skip |-> skip, limit |-> limit]) :
      search \in BOOLEAN, q \in Queries, skip \in Skips, limit \in Limits }

\* One read or search request on a store one of whose tables holds rows.
InitReads ==
  /\ autoflush = FALSE
  /\ audit = "off"
  /\ lnk = NoLinks
  /\ InitHandlers
  /\ \E kind \in Kinds :
       /\ \E table \in Tables(kind) : tbl = [NoRows EXCEPT ![kind] = table]
       /\ call \in { c \in ReadCalls(kind) : c.args.search \/ c.args.q = <<>> }

SpecReads == InitReads /\ [][ReadCall]_vars

\* ------------------------------------------------- concurrent requests
\* A flush that checks nothing, whatever the schema declares.
CommitOKAlways(constrained, table, pend) == TRUE

\* A flush that checks uniqueness whatever the schema declares.
CommitOKEnforced(constrained, table, pend) == FlushOK(table, pend)

\* The flush of db.commit() against the committed rows: the database checks
\* the keys when the schema declares the constraint.
CommitOK(constrained, table, pend) == constrained => FlushOK(table, pend)

\* The lists concurrent store calls are given: records that all have a key,
\* no key twice in one list (SpecSessions has the lists that repeat a key).
RaceLists(kind) ==
  { Processed(l) : l \in { x \in RawLists(kind) :
                             /\ \A i \in 1..Len(x) : "key" \in DOMAIN x[i]
                             /\ \A i, j \in 1..Len(x) : x[i].key = x[j].key => i = j } }

\* A thread enters store_objects with a list for its kind.
WBeginStore(w) ==
  /\ writer[w].op = "idle" /\ writer[w].kind \in Kinds
  /\ \E list \in RaceLists(writer[w].kind) :
       writer' = [writer EXCEPT ![w] =
                    [op |-> "store", kind |-> writer[w].kind, list |-> list, i |-> 1,
                     pend |-> <<>>, snap |-> <<>>, links |-> NoLinks,
                     d |-> Delivery("return", NoExc), exc |-> NoExc, count |-> NoCount,
                     staged |-> <<>>]]
  /\ UNCHANGED <<unique, tbl, lnk>>
  /\ UNCHANGED handlerVars

\* One turn of the loop of store_objects in a thread: the lookup of record i
\* and the add.  The first query of the transaction sees the committed rows;
\* a later one sees the committed rows or those the first one saw, as the
\* isolation level has it.
WLookup(w) ==
  LET me == writer[w]
  IN /\ me.op = "store" /\ me.i <= Len(me.list)
     /\ \E visible \in (IF me.i = 1 THEN {tbl[me.kind]} ELSE {tbl[me.kind], me.snap}) :
          LET found == Present(IF autoflush THEN visible \o me.pend ELSE visible, me.list[me.i])
          IN writer' = [writer EXCEPT ![w].i = me.i + 1,
                                      ![w].pend = IF found THEN me.pend
                                                  ELSE Append(me.pend, me.list[me.i]),
                                      ![w].snap = IF me.i = 1 THEN tbl[me.kind] ELSE me.snap]
     /\ UNCHANGED <<unique, tbl, lnk>>
     /\ UNCHANGED handlerVars

\* db.commit() of store_objects in a thread, and the except block when the
\* flush fails.
WCommit(w) ==
  LET me == writer[w]
  IN /\ me.op = "store" /\ me.i > Len(me.list)
     /\ IF CommitOK(unique, tbl[me.kind], me.pend)
        THEN /\ tbl' = [tbl EXCEPT ![me.kind] = Commit(tbl[me.kind], me.pend)]
             /\ writer' = [writer EXCEPT ![w] =
                             IdleWriter(me.kind, Delivery("return", NoExc), NoExc, Len(me.pend),
                                        me.pend)]
        ELSE /\ tbl' = [tbl EXCEPT ![me.kind] = Rollback(tbl[me.kind], me.pend)]
             /\ writer' = [writer EXCEPT ![w] =
                             IdleWriter(me.kind, ReRaise(IntegrityError), IntegrityError, NoCount,
                                        me.pend)]
     /\ UNCHANGED <<unique, lnk>>
     /\ UNCHANGED handlerVars

\* fill_relationships in a thread up to its commit: the queries and the
\* appends of the pairs the thread does not find linked.
WFillQuery(w) ==
  /\ writer[w].op = "idle" /\ writer[w].kind = "none"
  /\ writer' = [writer EXCEPT ![w] =
                  [op |-> "fill", kind |-> "none", list |-> <<>>, i |-> 0, pend |-> <<>>,
                   snap |-> <<>>,
                   links |-> [t \in LinkTables |->
                                Missing(tbl[Ends(t)[1]], tbl[Ends(t)[2]], lnk[t])],
                   d |-> Delivery("return", NoExc), exc |-> NoExc, count |-> NoCount,
                   staged |-> <<>>]]
  /\ UNCHANGED <<unique, tbl, lnk>>
  /\ UNCHANGED handlerVars

\* db.commit() of fill_relationships in a thread: the association tables
\* declare no key, every staged row is inserted.
WFillCommit(w) ==
  LET me == writer[w]
  IN /\ me.op = "fill"
     /\ lnk' = [t \in LinkTables |-> CommitLinks(lnk[t], me.links[t])]
     /\ writer' = [writer EXCEPT ![w] =
                     IdleWriter("none", Delivery("return", NoExc), NoExc, NoCount, <<>>)]
     /\ UNCHANGED <<unique, tbl>>
     /\ UNCHANGED handlerVars

RaceNext ==
  \/ \E w \in Writers : WBeginStore(w)
  \/ \E w \in Writers : WLookup(w)
  \/ \E w \in Writers : WCommit(w)

\* Two threads that call store_objects for one kind again and again, on a
\* schema with or without the uniqueness constraint.
InitRace ==
  /\ unique \in BOOLEAN
  /\ \E kind \in Kinds :
       writer = [w \in Writers |->
                   IdleWriter(kind, Delivery("return", NoExc), NoExc, NoCount, <<>>)]
  /\ autoflush = FALSE
  /\ audit = "off"
  /\ tbl = NoRows
  /\ lnk = NoLinks
  /\ InitLocals
  /\ call = NoCall

SpecRace == InitRace /\ [][RaceNext]_vars

FillsNext ==
  \/ \E w \in Writers : WFillQuery(w)
  \/ \E w \in Writers : WFillCommit(w)

\* Two threads that call fill_relationships again and again on a store whose
\* tables hold rows and no link yet.
InitFills ==
  /\ InitSchema
  /\ autoflush = FALSE
  /\ audit = "off"
  /\ \E c \in Tables("Character"), f \in Tables("Film"), st \in Tables("Starship") :
       tbl = [Character |-> c, Film |-> f, Starship |-> st]
  /\ lnk = NoLinks
  /\ InitLocals
  /\ call = NoCall

SpecFills == InitFills /\ [][FillsNext]_vars

\* ------------------------------------------------------------------ claims
\* C1: a store call given the list of the store call before it (which no
\* failure of the environment hit) changes no row and no link; it reports no
\* inserted row, and it returns when the call before it returned, unless the
\* environment fails it.
C1_StoreTwice ==
  [][\A kind \in Kinds :
       (Repeats(kind, Processed(local)) /\ RouteStoreStep(kind))
         => /\ tbl' = tbl
            /\ lnk' = lnk
            /\ out'.count \in {0, NoCount}
            /\ out'.how = "return" => out'.count = 0
            /\ lastStore.ok => out'.cause # "data"]_vars

\* C1 witness: a repeated store call on a non-empty list has returned with a
\* count of zero, the rows of the list persisted.
C1_Witness ==
  /\ lastStore.again /\ lastStore.ok
  /\ out.op = "store" /\ out.how = "return" /\ out.count = 0
  /\ lastStore.list # <<>>
  /\ KeysOf(lastStore.list) \subseteq KeysOf(tbl[lastStore.kind])

\* C2: no two rows of a kind's table share a natural key.
C2_UniqueKeys ==
  \A kind \in Kinds :
    \A i, j \in 1..Len(tbl[kind]) : tbl[kind][i].key = tbl[kind][j].key => i = j

\* C2 witness: store_characters has returned after inserting one row into a
\* table that held one.
C2_Witness ==
  /\ pc = Pc("sync_all", "fetch_films")
  /\ out.op = "store" /\ out.how = "return" /\ out.count = 1
  /\ Len(tbl["Character"]) = 2

\* C3: a fill that returns on a store without links leaves C*F, C*S and F*S
\* rows in the three association tables, and a fill that returns right after a
\* fill that returned adds no row.
C3_ClosureCount ==
  [][(out'.op = "fill" /\ out'.how = "return" /\ (FillCall \/ FillStep))
       => /\ lnk = NoLinks
               => \A t \in LinkTables :
                    BagCardinality(lnk'[t]) = Len(tbl[Ends(t)[1]]) * Len(tbl[Ends(t)[2]])
          /\ (out.op = "fill" /\ out.how = "return") => (lnk' = lnk /\ ~out'.staged)]_vars

\* C3 witness: a fill has returned on a store of two characters, a film and
\* two starships that held no link, and the store holds 2, 4 and 2 links.
C3_Witness ==
  /\ out.op = "fill" /\ out.how = "return" /\ out.staged /\ linked = 0
  /\ Len(tbl["Character"]) = 2 /\ Len(tbl["Film"]) = 1 /\ Len(tbl["Starship"]) = 2
  /\ BagCardinality(lnk["character_film"]) = 2
  /\ BagCardinality(lnk["character_starship"]) = 4
  /\ BagCardinality(lnk["film_starship"]) = 2

\* C4: after a fill returned on a store whose association tables held any
\* set of pairs, each association table holds every pair of rows of its two
\* tables exactly once.
C4_ClosureFromSubset ==
  (out.op = "fill" /\ out.how = "return")
    => \A t \in LinkTables : lnk[t] = SetToBag(Pairs(tbl[Ends(t)[1]], tbl[Ends(t)[2]]))

\* C4 witness: a fill has returned on a store of two rows of each kind that
\* held some of the twelve links and not all.
C4_Witness ==
  /\ out.op = "fill" /\ out.how = "return" /\ out.staged
  /\ linked > 0 /\ linked < LinkCount(lnk)
  /\ \A kind \in Kinds : Len(tbl[kind]) = 2

\* C5: while a run of sync_all that follows a run that reached Done fetches
\* the record sets that run fetched, none of its steps fails on the data, and
\* each of its steps that returns leaves every row and every link as it was.
C5_SyncTwice ==
  [][(pc.op = "sync_all" /\ same)
       => /\ out'.cause # "data"
          /\ same' => (tbl' = tbl /\ lnk' = lnk)]_vars

\* C5 witness: a second run has reached Done on the records of the first, the
\* store holding two characters, a film, a starship and their five links.
C5_Witness ==
  /\ pc = Pc("sync_all", "Done") /\ same
  /\ Len(tbl["Character"]) = 2 /\ Len(tbl["Film"]) = 1 /\ Len(tbl["Starship"]) = 1
  /\ recs["Character"] # {} /\ recs["Film"] # {} /\ recs["Starship"] # {}
  /\ LinkCount(lnk) = 5

\* C6: a run of sync_all executes fetch characters, store characters, fetch
\* films, store films, fetch starships, store starships, fill relationships
\* in this order, each step after the one before it returned; and a store
\* step that returns has inserted only records that the run's fetch of its
\* kind returned, has left a row for every key among them, and has left the
\* other tables as they were.
C6_StepOrder ==
  [][LET order == << "fetch_characters", "store_characters", "fetch_films", "store_films",
                     "fetch_starships", "store_starships", "fill_relationships" >>
         kind == StepKind(pc.step)
     IN /\ pc'.op = "sync_all"
             => /\ Len(trace') <= Len(order)
                /\ trace' = SubSeq(order, 1, Len(trace'))
                /\ pc'.step = "Done" => Len(trace') = Len(order)
                /\ pc'.step = "Failed" => (Len(trace') >= 1 /\ out'.how # "return")
                /\ pc'.step \notin {"Done", "Failed"}
                     => (Len(trace') < Len(order) /\ pc'.step = order[Len(trace') + 1])
        /\ (pc.op = "sync_all" /\ pc.step \notin {"Done", "Failed"})
             => (trace' = Append(trace, pc.step) /\ (out'.how = "return" <=> pc'.step # "Failed"))
        /\ (pc.op = "sync_all" /\ pc.step \in StoreSteps /\ out'.how = "return")
             => /\ RecSet(Appended(tbl[kind], tbl'[kind])) \subseteq recs[kind]
                /\ { r.key : r \in recs[kind] } \subseteq KeysOf(tbl'[kind])
                /\ \A k \in Kinds \ {kind} : tbl'[k] = tbl[k]]_vars

\* C6 witness: a first run has reached Done after its seven steps, each fetch
\* having returned records and each store having inserted them.
C6_Witness ==
  /\ pc = Pc("sync_all", "Done") /\ ~same /\ Len(trace) = 7
  /\ \A kind \in Kinds : recs[kind] # {} /\ recs[kind] = RecSet(tbl[kind])
  /\ out.op = "fill" /\ out.staged

C8_NoCompensation ==
  pc = Pc("sync_all", "Failed")
    => \A kind \in Kinds :
         LET n == Len(runAdded[kind])
             m == Len(tbl[kind])
         IN n <= m /\ SubSeq(tbl[kind], m - n + 1, m) = runAdded[kind]

\* C8 witness: store_films has failed with a row staged after store_characters
\* committed two rows in the same run.
C8_Witness ==
  /\ pc = Pc("sync_all", "Failed") /\ Len(trace) = 4
  /\ out.op = "store" /\ out.staged
  /\ Len(runAdded["Character"]) = 2 /\ runAdded["Film"] = <<>>

\* C9: a store or fill call that does not return leaves every row and every
\* link as it was before the call.
C9_AllOrNothing ==
  [][(out'.op \in {"store", "fill"} /\ out'.how # "return") => (tbl' = tbl /\ lnk' = lnk)]_vars

\* C9 witness: a store call of a route has failed at its commit with rows
\* staged, and the table it worked on holds a row.
C9_Witness ==
  /\ pc = Pc("none", "Idle") /\ out.op = "store" /\ out.how # "return"
  /\ out.cause = "env" /\ out.staged
  /\ \E kind \in Kinds : tbl[kind] # <<>>

\* C10: a store or fill call that fails delivers an exception to its caller:
\* it does not end the process.
C10_ReRaises ==
  (out.op \in {"store", "fill"} /\ out.how # "return")
    => (out.how = "raise" /\ out.exc.cls # "SystemExit")

\* A direct call of handle_db_exception has ended.
HandleDone == call.fn = "handle_db_exception" /\ call.done

\* The error is the schema error whose message says the table does not exist.
TableNotFound(e) == e.cls = "ProgrammingError" /\ e.notfound

\* C12: with exit_on_error true, handle_db_exception calls sys.exit(1) once and
\* ends the process for every error but the table-not-found schema error, and
\* for that one it makes no sys.exit call, raises nothing and returns.
C12_ExitRule ==
  (HandleDone /\ call.args.exit_on_error)
    => IF TableNotFound(call.args.e)
       THEN call.res.d = Delivery("return", NoExc) /\ call.res.exits = <<>>
       ELSE call.res.d = Delivery("exit", SystemExit1) /\ call.res.exits = <<1>>

\* C12 witness: called with exit_on_error true on an integrity error whose
\* message names a missing table, handle_db_exception has ended the process.
C12_Witness ==
  /\ HandleDone /\ call.args.exit_on_error
  /\ call.args.e = Exc("IntegrityError", TRUE, 0)
  /\ call.res.d.how = "exit"

\* C13: with exit_on_error false, handle_db_exception makes no sys.exit call;
\* it returns for the table-not-found schema error and raises the error it was
\* given for every other one, an unknown error included.
C13_OptOut ==
  (HandleDone /\ ~call.args.exit_on_error)
    => /\ call.res.exits = <<>>
       /\ call.res.d.how # "exit"
       /\ IF TableNotFound(call.args.e)
          THEN call.res.d = Delivery("return", NoExc)
          ELSE call.res.d = Delivery("raise", call.args.e)

\* C13 witness: called with exit_on_error false on an unknown error,
\* handle_db_exception has raised that error.
C13_Witness ==
  /\ HandleDone /\ ~call.args.exit_on_error
  /\ call.args.e = Exc("Exception", FALSE, 0)
  /\ call.res.d = Delivery("raise", Exc("Exception", FALSE, 0))

\* A direct call of fetch_from_swapi has ended.
FetchDone == call.fn = "fetch_from_swapi" /\ call.done

\* The source failed every attempt of the call, retries being at least 1.
Exhausted == call.args.retries >= 1 /\ call.args.fails >= call.args.retries

\* An attempt of the call succeeded: the first call.args.fails attempts failed
\* and attempt call.args.fails + 1 is within retries.
Succeeded == call.args.retries >= 1 /\ call.args.fails < call.args.retries

\* C15: when the source fails every attempt, fetch_from_swapi makes exactly
\* `retries` requests and retries - 1 sleeps, each of `delay` seconds: one
\* between two attempts and none after the last.
C15_ExhaustionCount ==
  (FetchDone /\ Exhausted)
    => /\ call.res.requests = call.args.retries
       /\ call.res.sleeps = [i \in 1..(call.args.retries - 1) |-> call.args.delay]

\* C15 witness: a call with retries = 3 and delay = 2 against a source that
\* never answers has made three requests and slept twice for 2 seconds.
C15_Witness ==
  /\ FetchDone /\ Exhausted
  /\ call.args.retries = 3 /\ call.args.delay = 2
  /\ call.res.requests = 3 /\ call.res.sleeps = <<2, 2>>

\* C16: after the last attempt has failed, fetch_from_swapi raises an
\* HTTPException with status 502 when fail_fast is true, and returns the empty
\* list without raising when fail_fast is false.
C16_FailFast ==
  (FetchDone /\ Exhausted)
    => IF call.args.fail_fast
       THEN call.res.d = Delivery("raise", HTTPError(502))
       ELSE call.res.d = Delivery("return", NoExc) /\ call.res.value = <<>>

\* C16 witness: a call with fail_fast false and retries = 2 has returned the
\* empty list after two failed requests.
C16_Witness ==
  /\ FetchDone /\ Exhausted /\ ~call.args.fail_fast
  /\ call.args.retries = 2 /\ call.res.requests = 2
  /\ call.res.d.how = "return" /\ call.res.value = <<>>

\* C17: when attempts 1..k-1 fail and attempt k <= retries succeeds,
\* fetch_from_swapi makes exactly k requests, raises nothing and returns the
\* normalised body of attempt k; the call with the other value of fail_fast
\* gives the same.
C17_FirstSuccess ==
  (FetchDone /\ Succeeded)
    => /\ call.res.requests = call.args.fails + 1
       /\ call.res.d = Delivery("return", NoExc)
       /\ call.res.value = Normalize(call.args.body)
       /\ call.res = FetchFromSwapi(call.args.fails, call.args.body, call.args.retries,
                                    call.args.delay, ~call.args.fail_fast)

\* C17 witness: with retries = 3 the first attempt failed and the second
\* answered a body of two records: two requests, the two records returned.
C17_Witness ==
  /\ FetchDone /\ Succeeded
  /\ call.args.retries = 3 /\ call.args.fails = 1
  /\ call.res.requests = 2 /\ Len(call.res.value) = 2

\* C18: a successful fetch of a body that is a mapping returns the mapping's
\* values in the mapping's order, without the keys; a successful fetch of a
\* body that is a list returns that list.
C18_Normalization ==
  (FetchDone /\ Succeeded)
    => IF call.args.body.shape = "dict"
       THEN /\ Len(call.res.value) = Len(call.args.body.items)
            /\ \A i \in 1..Len(call.args.body.items) :
                 call.res.value[i] = call.args.body.items[i][2]
       ELSE call.res.value = call.args.body.items

\* C18 witness: a successful fetch of a mapping with two different values has
\* returned the two values.
C18_Witness ==
  /\ FetchDone /\ Succeeded
  /\ call.args.body.shape = "dict" /\ Len(call.args.body.items) = 2
  /\ call.args.body.items[1][2] # call.args.body.items[2][2]
  /\ Len(call.res.value) = 2

\* C19: in a sync_all run, the store step of a kind for which the fetch
\* returned zero records changes no table and does not fail on the data; unless
\* the environment fails it, it returns having added 0 rows, and the run goes
\* on to its next statement.
C19_EmptyKind ==
  [][(pc.op = "sync_all" /\ pc.step \in StoreSteps /\ local = <<>>)
       => /\ tbl' = tbl
          /\ out'.op = "store"
          /\ out'.cause \in {"none", "env"}
          /\ out'.cause = "none"
               => /\ out'.how = "return" /\ out'.count = 0
                  /\ pc' = Pc("sync_all", NextStep(pc.step))
                  /\ pc'.step # "Failed"]_vars

\* C19 witness: a sync_all run that fetched no film has finished, with the
\* characters and starships it fetched stored and linked to each other.
C19_Witness ==
  /\ pc = Pc("sync_all", "Done") /\ out.op = "fill" /\ out.how = "return"
  /\ recs["Film"] = {} /\ recs["Character"] # {} /\ recs["Starship"] # {}
  /\ tbl["Film"] = <<>> /\ tbl["Character"] # <<>> /\ tbl["Starship"] # <<>>
  /\ \E t \in LinkTables : lnk[t] # EmptyBag

\* The record's key is the key of a row of the table.
Persisted(table, data) == \E j \in 1..Len(table) : table[j].key = data.key

\* C20: a store call changes no row that was there before it; a record whose
\* key is persisted with other attributes is skipped, the key keeping its one
\* row; and a call whose records all have persisted keys does not fail on the
\* data and adds 0 rows when it returns.
C20_NoUpdate ==
  [][(pc.step \in StoreSteps)
       => LET kind == StepKind(pc.step)
              R == Processed(local)
          IN /\ \A k \in Kinds :
                  /\ Len(tbl'[k]) >= Len(tbl[k])
                  /\ SubSeq(tbl'[k], 1, Len(tbl[k])) = tbl[k]
             /\ \A i \in 1..Len(R) :
                  (Persisted(tbl[kind], R[i]) /\ R[i] \notin RecSet(tbl[kind]))
                    => /\ R[i] \notin RecSet(tbl'[kind])
                       /\ Cardinality({ j \in 1..Len(tbl'[kind]) :
                                          tbl'[kind][j].key = R[i].key }) = 1
             /\ (\A i \in 1..Len(R) : Persisted(tbl[kind], R[i]))
                  => /\ out'.cause # "data"
                     /\ tbl' = tbl
                     /\ out'.how = "return" => out'.count = 0]_vars

\* C20 witness: the starship route has stored the one record X-Wing with
\* attribute a2 while the table held X-Wing with a1; the call returned and the
\* table holds the row with a1 alone.
C20_Witness ==
  /\ pc = Pc("none", "Idle") /\ out.op = "store" /\ out.how = "return" /\ out.count = 0
  /\ lastStore.kind = "Starship" /\ lastStore.ok
  /\ lastStore.list = <<[key |-> "X-Wing", attr |-> "a2"]>>
  /\ tbl["Starship"] = <<[key |-> "X-Wing", attr |-> "a1"]>>

\* C11: a store or fill call returns normally to its caller exactly when
\* nothing failed in it or what failed was the table-not-found schema error;
\* every other failure reaches the caller.
C11_OnlyNotFoundSwallowed ==
  (out.op \in {"store", "fill"})
    => (out.how = "return" <=> (out.err = NoExc \/ TableNotFound(out.err)))

\* A sync request handler has ended on the failure of one of its steps: a
\* sync_all run, or a single-kind route after its fetch or its store.
HandlerFailed ==
  \/ pc = Pc("sync_all", "Failed")
  \/ pc = Pc("none", "Idle") /\ out.op \in {"fetch", "store"} /\ out.how # "return"

\* C14: a sync request handler that ends on the failure of a fetch, store or
\* fill step ends with an error response, 502 when the fetch gave up and 500
\* otherwise, and the step has not ended the process.
C14_ProcessAlive ==
  HandlerFailed
    => /\ out.how # "exit"
       /\ resp = IF out.op = "fetch" THEN 502 ELSE 500

\* C21: no step of a store call, a single-kind sync, a sync_all run or a fill
\* call, whether it succeeds or fails, removes or changes a persisted row or
\* removes a persisted link; a store call leaves every association table as it
\* was, and a fill call leaves every entity table as it was.
C21_Monotonic ==
  [][/\ \A k \in Kinds :
          /\ Len(tbl'[k]) >= Len(tbl[k])
          /\ SubSeq(tbl'[k], 1, Len(tbl[k])) = tbl[k]
     /\ \A t \in LinkTables : lnk[t] \sqsubseteq lnk'[t]
     /\ out'.op = "store" => lnk' = lnk
     /\ out'.op = "fill" => tbl' = tbl]_vars

\* C21 witness: a store call has failed with rows staged on a store that
\* holds rows of every kind and links in every association table.
C21_Witness ==
  /\ out.op = "store" /\ out.how # "return" /\ out.staged
  /\ \A k \in Kinds : tbl[k] # <<>>
  /\ \A t \in LinkTables : lnk[t] # EmptyBag

\* The step is the fetch of a single-kind route.
IsRouteFetch == AtRest /\ out'.op = "fetch"

\* The step is the store call of a single-kind route.
IsRouteStore == pc.op = "sync_kind"

\* C22: a single-kind sync fetches records of its own kind and stores into its
\* own kind's table only: its fetch changes no table, its store leaves the
\* tables of the other two kinds as they were, neither step changes an
\* association table, and the route ends without running fill_relationships.
C22_SingleKindFrame ==
  [][(IsRouteFetch \/ IsRouteStore)
       => /\ lnk' = lnk
          /\ pc'.step # "fill_relationships"
          /\ IsRouteFetch
               => /\ tbl' = tbl
                  /\ pc'.op = "sync_kind"
                       => /\ pc'.step \in StoreSteps
                          /\ \A i \in 1..Len(local') :
                               Get(local'[i], "key") \in Names(StepKind(pc'.step)) \cup {None}
          /\ IsRouteStore
               => /\ pc' = Pc("none", "Idle")
                  /\ \A k \in Kinds \ {StepKind(pc.step)} : tbl'[k] = tbl[k]]_vars

\* C22 witness: a single-kind sync has added a row to its table on a store
\* that holds rows of every kind and links in every association table.
C22_Witness ==
  /\ pc = Pc("none", "Idle") /\ out.op = "store" /\ out.how = "return" /\ out.count > 0
  /\ resp = 200
  /\ \A k \in Kinds : tbl[k] # <<>>
  /\ \A t \in LinkTables : lnk[t] # EmptyBag

\* C23: a single-kind sync answers "nothing found", without calling store,
\* exactly when its fetch returned zero records; otherwise its summary states
\* the number of rows its store call newly added.
C23_SummaryCount ==
  (pc = Pc("none", "Idle") /\ resp = 200)
    => /\ msg.text = "nothing found" <=> out.op = "fetch"
       /\ msg.text = "synced" <=> out.op = "store"
       /\ msg.text = "synced" => msg.count = out.count

\* C30: for every retries, delay, fail_fast and source, fetch_from_swapi makes
\* at most `retries` requests and then either raises or returns a sequence: it
\* never returns None.
C30_ValueOrError ==
  FetchDone
    => /\ call.res.requests <= call.args.retries
       /\ \/ call.res.d.how = "raise"
          \/ call.res.d.how = "return" /\ call.res.valued

\* The list gives every record a key and gives some key, one that no row of
\* the table has, to two records.
RepeatsNewKey(table, R) ==
  /\ \A i \in 1..Len(R) : R[i].key # None
  /\ \E i, j \in 1..Len(R) : i # j /\ R[i].key = R[j].key /\ ~Persisted(table, R[i])

\* C28: with or without autoflush, a store call whose list holds a key, not
\* yet persisted, twice does not fail on the data; unless the environment
\* fails it, it commits, counts one added row for each new key and leaves
\* exactly one row for each key of the list.
C28_BatchDuplicate ==
  [][(pc.step \in StoreSteps /\ RepeatsNewKey(tbl[StepKind(pc.step)], Processed(local)))
       => LET kind == StepKind(pc.step)
              R == Processed(local)
          IN /\ out'.cause # "data"
             /\ out'.cause = "none"
                  => /\ out'.how = "return"
                     /\ out'.count = Cardinality(KeysOf(R) \ KeysOf(tbl[kind]))
                     /\ \A i \in 1..Len(R) :
                          Cardinality({ j \in 1..Len(tbl'[kind]) :
                                          tbl'[kind][j].key = R[i].key }) = 1]_vars

\* A read or search request has been answered.
ReadDone == call.fn = "read" /\ call.done

\* The text holds q as a substring, letter case ignored.
ContainsIgnoringCase(text, q) ==
  \E i \in 1..(Len(text) - Len(q) + 1) :
    SubSeq(LowerSeq(text), i, i + Len(q) - 1) = LowerSeq(q)

\* C24: a search that is answered with rows lists exactly the rows of the
\* kind's table whose name / title contains the query as a substring, letter
\* case ignored, cut to the window [skip, skip + limit) of those rows.
C24_SearchResult ==
  (ReadDone /\ call.args.search /\ call.res.ran)
    => call.res.rows
         = Window(SelectSeq(tbl[call.args.kind],
                            LAMBDA row : ContainsIgnoringCase(Letters(row.key), call.args.q)),
                  call.args.skip, call.args.limit)

\* C25: the body of a read or search handler runs only with skip <= 10000 and
\* limit in 1..100; a request outside these is answered 400 or 422 without a
\* query of the store: 422 for limit 0 or 101, 400 for skip > 10000 when the
\* declared parameter constraints are met.
C25_PaginationGuard ==
  ReadDone
    => /\ call.res.ran => (call.args.skip <= 10000 /\ call.args.limit \in 1..100)
       /\ (call.args.skip > 10000 \/ call.args.limit \notin 1..100)
            => /\ ~call.res.ran /\ ~call.res.queried /\ call.res.rows = <<>>
               /\ call.res.status \in {400, 422}
       /\ call.args.limit \in {0, 101} => call.res.status = 422
       /\ (call.args.skip > 10000 /\ call.args.limit \in 1..100
             /\ (call.args.search => call.args.q # <<>>))
            => call.res.status = 400

\* C25 witness: a read of a table that holds two rows with skip = 10001 and
\* limit = 2 has been answered 400 without running the handler body.
C25_Witness ==
  /\ ReadDone /\ ~call.args.search
  /\ call.args.skip = 10001 /\ call.args.limit = 2
  /\ Len(tbl[call.args.kind]) = 2
  /\ call.res.status = 400 /\ ~call.res.ran

\* The step is the commit of the store call of thread w.
IsWCommit(w) == writer[w].op = "store" /\ writer'[w].op = "idle"

\* The session of thread w holds a row whose key a committed row has.
StagedPersisted(w) ==
  \E i \in 1..Len(writer[w].pend) : Persisted(tbl[writer[w].kind], writer[w].pend[i])

\* The number of rows of the table that have the key.
RowsWithKey(table, k) == Cardinality({ j \in 1..Len(table) : table[j].key = k })

\* C26: on a schema without the uniqueness constraint, the commit of a store
\* call whose session holds a row with a key another call committed after the
\* lookup succeeds and persists every staged row: the key then has two rows
\* or more.
C26_RaceDuplicates ==
  [][\A w \in Writers :
       (~unique /\ IsWCommit(w) /\ StagedPersisted(w))
         => /\ writer'[w].d = Delivery("return", NoExc)
            /\ tbl'[writer[w].kind] = tbl[writer[w].kind] \o writer[w].pend
            /\ \E i \in 1..Len(writer[w].pend) :
                 RowsWithKey(tbl'[writer[w].kind], writer[w].pend[i].key) >= 2]_vars

\* C26 witness: without the constraint, both threads have staged the one row
\* Luke, both have committed, and the character table holds Luke twice.
C26_Witness ==
  /\ ~unique
  /\ \A w \in Writers :
       /\ writer[w].op = "idle" /\ writer[w].d.how = "return"
       /\ writer[w].staged = <<[key |-> "Luke", attr |-> "a1"]>>
  /\ tbl["Character"] = <<[key |-> "Luke", attr |-> "a1"], [key |-> "Luke", attr |-> "a1"]>>

\* C27: on the schema with the uniqueness constraint, after every step of
\* two threads running store calls no two rows of a table share a key, and
\* the commit of a call whose session holds a row with a key another call
\* committed fails with IntegrityError and persists none of its staged rows.
C27_ConstraintBackstop ==
  [][unique
       => /\ \A kind \in Kinds : \A i, j \in 1..Len(tbl'[kind]) :
               tbl'[kind][i].key = tbl'[kind][j].key => i = j
          /\ \A w \in Writers :
               (IsWCommit(w) /\ StagedPersisted(w))
                 => /\ writer'[w].exc = IntegrityError
                    /\ writer'[w].d.how # "return"
                    /\ tbl' = tbl]_vars

\* C27 witness: with the constraint, thread 2 staged Leia and Luke, found
\* Luke committed by thread 1 at its commit, failed with IntegrityError, and
\* the table holds the row of thread 1 alone.
C27_Witness ==
  /\ unique
  /\ writer[1].op = "idle" /\ writer[1].d.how = "return"
  /\ writer[1].staged = <<[key |-> "Luke", attr |-> "a1"]>>
  /\ writer[2].op = "idle" /\ writer[2].exc = IntegrityError
  /\ writer[2].staged = <<[key |-> "Leia", attr |-> "a1"], [key |-> "Luke", attr |-> "a1"]>>
  /\ tbl["Character"] = <<[key |-> "Luke", attr |-> "a1"]>>

\* C29: after every step of two threads running fill_relationships, each pair
\* of rows has at most one row in its association table.
C29_NoDuplicateEdges ==
  \A t \in LinkTables : \A p \in BagToSet(lnk[t]) : CopiesIn(p, lnk[t]) <= 1

====
